---- MODULE Spec2Model ----
(***************************************************************************)
(* Model of the portable packager (portable_packager.py) and of the path   *)
(* normaliser of the trace converter (trace_xml_to_config.py).             *)
(*                                                                         *)
(* Python strings are sequences of one-character strings; a file-system    *)
(* path (pathlib.Path) is the sequence of its components, each a string.   *)
(***************************************************************************)
EXTENDS Integers, Sequences, FiniteSets, TLC

VARIABLES
    config,         \* the manifest returned by load_config
    dry_run,        \* the dry_run argument of main
    pc,             \* position of main: the statement it executes next
    idx,            \* index of the entry the current capture loop is at
    fs_dirs,        \* directories that exist under the output path
    fs_content,     \* what each written path holds (files, mirrored trees)
    start_dirs,     \* fs_dirs when the run started
    start_content,  \* fs_content when the run started
    log,            \* lines printed to stdout, in order
    executed,       \* external commands run with subprocess.run, in order
    result,         \* the CompletedProcess of the last subprocess.run
    error,          \* the exception that ended the run, if any
    preview,        \* log of the dry run that preceded this run, if any
    raw,            \* trace converter: the raw attribute value
    norm,           \* trace converter: normalize_path applied to it
    doc,            \* trace converter: the elements of the uninstall trace
    collected,      \* trace converter: the four sets collect_paths returns
    reduced,        \* trace converter: the list reduce_paths returns
    picked,         \* trace converter: the directories and files picked
    built,          \* trace converter: the manifest build_config returns
    workers,        \* GUI backend: the worker thread of each operation
    signals,        \* GUI backend: how often each Qt signal was emitted
    occupied,       \* GUI backend: the output directories that hold something
    stub_entry,     \* restore template: the directory entry of the line
    dest_base,      \* restore template: its destination base
    dest_suffix     \* restore template: its destination suffix

vars == <<config, dry_run, pc, idx, fs_dirs, fs_content, start_dirs,
          start_content, log, executed, result, error, preview, raw, norm,
          doc, collected, reduced, picked, built, workers, signals, occupied,
          stub_entry, dest_base, dest_suffix>>

packVars == <<config, dry_run, pc, idx, fs_dirs, fs_content, start_dirs,
              start_content, log, executed, result, error, preview>>

traceVars == <<raw, norm>>

convVars == <<doc, collected, reduced, picked, built>>

hostVars == <<workers, signals, occupied>>

stubVars == <<stub_entry, dest_base, dest_suffix>>

packVarsButPc == <<config, dry_run, idx, fs_dirs, fs_content, start_dirs,
                   start_content, log, executed, result, error, preview>>

(***************************************************************************)
(* Bounds of the model.                                                    *)
(***************************************************************************)
MaxEntries == 1     \* longest list of one manifest category
MaxLen == 3         \* longest raw attribute value given to normalize_path

(***************************************************************************)
(* Strings and paths.                                                      *)
(***************************************************************************)
RECURSIVE Join(_, _)
\* sep.join(parts)
Join(parts, sep) ==
    IF parts = <<>> THEN <<>>
    ELSE IF Len(parts) = 1 THEN parts[1]
    ELSE parts[1] \o sep \o Join(Tail(parts), sep)

\* str(path) of a pathlib.Path on Windows
PathStr(path) == Join(path, <<"\\">>)

\* path.name
PathName(path) == IF path = <<>> THEN <<>> ELSE path[Len(path)]

\* path.parent
PathParent(path) == IF Len(path) <= 1 THEN path ELSE SubSeq(path, 1, Len(path) - 1)

\* the path and all its ancestors
Ancestors(path) == { SubSeq(path, 1, n) : n \in 1..Len(path) }

\* Path.mkdir(parents=True, exist_ok=True)
Mkdir(dirs, path) == dirs \cup Ancestors(path)

\* the entries of a directory, as iterdir() lists them
Iterdir(dirs, content, path) ==
    { p \in dirs \cup DOMAIN content : Len(p) = Len(path) + 1 /\ PathParent(p) = path }

\* f with the value at key k set to v (k may be new)
Put(f, k, v) == [x \in DOMAIN f \cup {k} |-> IF x = k THEN v ELSE f[x]]

EmptyMap == [x \in {} |-> <<>>]

(***************************************************************************)
(* The machine the packager runs on: the words of its command lines, the   *)
(* source paths that exist, and the output path given to main.             *)
(***************************************************************************)
W_robocopy == <<"r","o","b","o","c","o","p","y">>
W_reg == <<"r","e","g">>
W_export == <<"e","x","p","o","r","t">>
W_sc == <<"s","c",".","e","x","e">>
W_qc == <<"q","c">>
W_qdescription == <<"q","d","e","s","c","r","i","p","t","i","o","n">>
W_schtasks == <<"s","c","h","t","a","s","k","s">>
W_ProgramFiles == <<"P","r","o","g","r","a","m","F","i","l","e","s">>
W_ProgramData == <<"P","r","o","g","r","a","m","D","a","t","a">>
W_Registry == <<"R","e","g","i","s","t","r","y">>
W_Services == <<"S","e","r","v","i","c","e","s">>
W_Tasks == <<"T","a","s","k","s">>
W_Shortcuts == <<"S","h","o","r","t","c","u","t","s">>
W_manifest_json == <<"m","a","n","i","f","e","s","t",".","j","s","o","n">>
W_Restore_cmd == <<"R","e","s","t","o","r","e","_","T","e","m","p","l","a","t","e",".","c","m","d">>

Drive == <<"C", ":">>

\* the output_dir argument of main, resolved
OutputDir == << <<"o","u","t">> >>

\* a file that an occupied output directory already holds
OldFile == OutputDir \o << <<"o","l","d">> >>

DirY == <<Drive, <<"X">>, <<"Y">>>>
DirD == <<Drive, <<"D">>>>
DirGone == <<Drive, <<"G">>>>
FileOk == <<Drive, <<"a",".","t">>>>
FileGone == <<Drive, <<"g",".","t">>>>
ShortcutOk == <<Drive, <<"s",".","l">>>>
ShortcutGone == <<Drive, <<"h",".","l">>>>

\* two directories of the same name that an uninstall trace names
DirXY == <<Drive, <<"P">>, <<"x">>, <<"y">>>>
DirZY == <<Drive, <<"P">>, <<"z">>, <<"y">>>>

\* the source paths for which Path.exists() is true
ExistingPaths == {DirY, DirD, FileOk, ShortcutOk, DirXY, DirZY}

\* entry.get("target") of an entry that has no target
NoTarget == <<>>

DirectoryEntries ==
    { [path |-> DirY, target |-> << <<"Y">> >>, type |-> "program"],
      [path |-> DirD, target |-> NoTarget, type |-> "data"],
      [path |-> DirGone, target |-> NoTarget, type |-> "program"] }

FilePaths == {FileOk, FileGone}
ShortcutPaths == {ShortcutOk, ShortcutGone}
RegistryKeys == { <<"H","K","C","U","\\","F">> }
ServiceNames == { <<"m","y"," ","s">> }
TaskNames == { <<"\\","T">> }

\* exit codes an external tool may return
ExitCodes == {0, 1, 7, 8}

\* what a tool prints: something on stdout, and on stderr when it fails
StdoutOf(code) == <<"o">>
StderrOf(code) == IF code = 0 THEN <<>> ELSE <<"e">>

\* subprocess.run(cmd, capture_output=True, ...) returning with this code
Completed(cmd, code) ==
    [args |-> cmd, returncode |-> code, stdout |-> StdoutOf(code), stderr |-> StderrOf(code)]

\* the results subprocess.run may return for a command
Results(cmd) == { Completed(cmd, code) : code \in ExitCodes }

NoResult == [args |-> <<>>, returncode |-> 0, stdout |-> <<>>, stderr |-> <<>>]

\* all sequences over S of length at most n
SeqsUpTo(S, n) == UNION { [1..k -> S] : k \in 0..n }

Manifests ==
    [ app_name : {<<"F","o","o">>},
      directories : SeqsUpTo(DirectoryEntries, MaxEntries),
      files : SeqsUpTo(FilePaths, MaxEntries),
      registry_keys : SeqsUpTo(RegistryKeys, MaxEntries),
      services : SeqsUpTo(ServiceNames, MaxEntries),
      scheduled_tasks : SeqsUpTo(TaskNames, MaxEntries),
      shortcuts : SeqsUpTo(ShortcutPaths, MaxEntries) ]

(***************************************************************************)
(* Errors and log lines.                                                   *)
(***************************************************************************)
NoError == [kind |-> "none", what |-> "", returncode |-> 0,
            stdout |-> <<>>, stderr |-> <<>>, missing |-> <<>>]

\* FileExistsError raised by main
OutputNotEmpty == [NoError EXCEPT !.kind = "FileExistsError"]

\* FileNotFoundError raised by validate_paths
NotFound(what, missing) ==
    [NoError EXCEPT !.kind = "FileNotFoundError", !.what = what, !.missing = missing]

\* RuntimeError raised for a failed external command
CommandFailed(what, res) ==
    [NoError EXCEPT !.kind = "RuntimeError", !.what = what,
                    !.returncode = res.returncode,
                    !.stdout = res.stdout, !.stderr = res.stderr]

\* OSError raised by shutil.copy2
CopyFailed == [NoError EXCEPT !.kind = "OSError"]

\* a line printed with print(): its bracketed tag and the values it shows
Line(tag, args) == [tag |-> tag, args |-> args]

(***************************************************************************)
(* portable_packager.py: helpers.                                          *)
(***************************************************************************)
\* the successful codes with the range one too long: range(0, 9)
RobocopyCodesOneTooMany == 0..8

SUCCESSFUL_ROBOCOPY_CODES == 0..7

\* expand_path: the manifests of the model hold absolute paths without
\* environment variables or home markers, which expand to themselves
expand_path(path) == path

\* run_command without its returncode check
CommandNeverRaises(res) == FALSE

\* run_command: the command failed (returncode != 0)
CommandRaises(res) == res.returncode # 0

\* copy_directory: robocopy failed (returncode not in the successful codes)
RobocopyRaises(res) == res.returncode \notin SUCCESSFUL_ROBOCOPY_CODES

\* str.isalnum() for the characters of the model
IsAlnum(char) ==
    char \in {"a","b","c","d","e","f","g","h","i","j","k","l","m","n","o","p","q",
              "r","s","t","u","v","w","x","y","z","A","B","C","D","E","F","G","H",
              "I","J","K","L","M","N","O","P","Q","R","S","T","U","V","W","X","Y",
              "Z","0","1","2","3","4","5","6","7","8","9"}

\* sanitize_name
sanitize_name(value) ==
    [i \in 1..Len(value) |->
        IF IsAlnum(value[i]) \/ value[i] \in {"-", "_", "."} THEN value[i] ELSE "_"]

RECURSIVE StripChars(_, _)
\* value.strip(chars): leading and trailing characters of the set removed
StripChars(value, chars) ==
    IF value = <<>> THEN value
    ELSE IF value[1] \in chars THEN StripChars(Tail(value), chars)
    ELSE IF value[Len(value)] \in chars
         THEN StripChars(SubSeq(value, 1, Len(value) - 1), chars)
    ELSE value

\* the folders of the package under the output directory
prog_files_dir == OutputDir \o <<W_ProgramFiles>>
data_dir == OutputDir \o <<W_ProgramData>>
registry_dir == OutputDir \o <<W_Registry>>
services_dir == OutputDir \o <<W_Services>>
tasks_dir == OutputDir \o <<W_Tasks>>
shortcuts_dir == OutputDir \o <<W_Shortcuts>>

\* main: the destination of a directory entry
DirectoryDestination(entry) ==
    LET source == expand_path(entry.path)
        target_rel == IF entry.target = NoTarget THEN <<PathName(source)>> ELSE entry.target
        target_root == IF entry.type = "data" THEN data_dir ELSE prog_files_dir
    IN  target_root \o target_rel

\* copy_directory: the robocopy command line
RobocopyCmd(source, destination) ==
    <<W_robocopy, source, destination, <<"/","M","I","R">>,
      <<"/","C","O","P","Y","A","L","L">>, <<"/","R",":","2">>, <<"/","W",":","2">>,
      <<"/","N","F","L">>, <<"/","N","D","L">>, <<"/","N","P">>>>

\* export_registry: the reg command line
RegCmd(key, destination) == <<W_reg, W_export, key, PathStr(destination), <<"/","y">>>>

\* capture_service: the two sc command lines
ScQcCmd(service_name) == <<W_sc, W_qc, service_name>>
ScQdescriptionCmd(service_name) == <<W_sc, W_qdescription, service_name>>

\* capture_scheduled_task: the schtasks command line
SchtasksCmd(task_name) ==
    <<W_schtasks, <<"/","q","u","e","r","y">>, <<"/","t","n">>, task_name, <<"/","x","m","l">>>>

\* the emptiness check with any() negated: an empty directory is refused
OutputRefusedIfEmpty(dry, dirs, content) ==
    ~dry /\ OutputDir \in dirs /\ Iterdir(dirs, content, OutputDir) = {}

\* the emptiness check without "not dry_run"
OutputRefusedInDryRun(dry, dirs, content) ==
    OutputDir \in dirs /\ Iterdir(dirs, content, OutputDir) # {}

\* main: the output directory exists and holds something, in a real run
OutputRefused(dry, dirs, content) ==
    ~dry /\ OutputDir \in dirs /\ Iterdir(dirs, content, OutputDir) # {}

\* validate_paths: the paths of items that do not exist, in order
MissingPaths(items) ==
    SelectSeq([i \in 1..Len(items) |-> expand_path(items[i])],
              LAMBDA p : p \notin ExistingPaths)

\* the tree under path replaced by a mirror of source (robocopy /MIR)
Mirror(content, path, source) ==
    LET kept == { p \in DOMAIN content :
                    ~(Len(p) > Len(path) /\ SubSeq(p, 1, Len(path)) = path) }
    IN  Put([p \in kept |-> content[p]], path, [kind |-> "mirror", data |-> source])

(***************************************************************************)
(* main: the order of the capture loops.                                   *)
(***************************************************************************)
\* the loops of main with the first two exchanged
CategoriesFilesFirst == <<"files", "directories", "registry_keys", "services",
                          "scheduled_tasks", "shortcuts">>

Categories == <<"directories", "files", "registry_keys", "services",
                "scheduled_tasks", "shortcuts">>

CategoryIndex(cat) == CHOOSE k \in 1..Len(Categories) : Categories[k] = cat

RECURSIVE FirstLoopFrom(_, _)
\* the first loop from the k-th on that has an entry, else the manifest step
FirstLoopFrom(cfg, k) ==
    IF k > Len(Categories) THEN "manifest"
    ELSE IF Len(cfg[Categories[k]]) > 0 THEN Categories[k]
    ELSE FirstLoopFrom(cfg, k + 1)

\* where main is after the i-th entry of a loop: <<pc, idx>>
AfterEntry(cfg, cat, i) ==
    IF i < Len(cfg[cat]) THEN <<cat, i + 1>>
    ELSE <<FirstLoopFrom(cfg, CategoryIndex(cat) + 1), 1>>

(***************************************************************************)
(* portable_packager.py: a run of main.                                    *)
(***************************************************************************)
OutputStates ==
    { [dirs |-> {}, content |-> EmptyMap],
      [dirs |-> {OutputDir}, content |-> EmptyMap],
      [dirs |-> {OutputDir}, content |-> Put(EmptyMap, OldFile, [kind |-> "old", data |-> <<>>])] }

PackInit ==
    /\ config \in Manifests
    /\ dry_run \in BOOLEAN
    /\ \E out \in OutputStates :
         /\ fs_dirs = out.dirs
         /\ fs_content = out.content
         /\ start_dirs = out.dirs
         /\ start_content = out.content
    /\ pc = "start"
    /\ idx = 1
    /\ log = <<>>
    /\ executed = <<>>
    /\ result = NoResult
    /\ error = NoError
    /\ preview = <<>>

\* the run ends with the exception e
Raise(e) ==
    /\ error' = e
    /\ pc' = "failed"
    /\ idx' = idx

\* the loop goes on to its next entry, or main to its next loop
Continue(cat) ==
    /\ pc' = AfterEntry(config, cat, idx)[1]
    /\ idx' = AfterEntry(config, cat, idx)[2]
    /\ error' = error

\* main, lines 261-274: load the manifest, refuse an occupied output
\* directory, create the output directory
Prepare ==
    /\ pc = "start"
    /\ log' = Append(log, Line("info", <<config.app_name, PathStr(OutputDir)>>))
    /\ IF OutputRefused(dry_run, fs_dirs, fs_content)
       THEN /\ Raise(OutputNotEmpty)
            /\ fs_dirs' = fs_dirs
       ELSE /\ fs_dirs' = Mkdir(fs_dirs, OutputDir)
            /\ pc' = "validate_directories"
            /\ UNCHANGED <<idx, error>>
    /\ UNCHANGED <<config, dry_run, fs_content, start_dirs, start_content,
                   executed, result, preview, traceVars, convVars,
                   hostVars, stubVars>>

\* validate_paths(items, what), then main goes on to next
Validate(items, what, next) ==
    /\ IF MissingPaths(items) # <<>>
       THEN Raise(NotFound(what, MissingPaths(items)))
       ELSE /\ pc' = next
            /\ UNCHANGED <<idx, error>>
    /\ UNCHANGED <<config, dry_run, fs_dirs, fs_content, start_dirs, start_content,
                   log, executed, result, preview, traceVars, convVars,
                   hostVars, stubVars>>

\* main, line 276
ValidateDirectories ==
    /\ pc = "validate_directories"
    /\ Validate([i \in 1..Len(config.directories) |-> config.directories[i].path],
                "directories", "validate_files")

\* main, line 277
ValidateFiles ==
    /\ pc = "validate_files"
    /\ Validate(config.files, "files", "validate_shortcuts")

\* main, line 278
ValidateShortcuts ==
    /\ pc = "validate_shortcuts"
    /\ Validate(config.shortcuts, "shortcuts", FirstLoopFrom(config, 1))

\* main, lines 297-302, and copy_directory
CopyDirectory ==
    /\ pc = "directories"
    /\ LET entry == config.directories[idx]
           source == expand_path(entry.path)
           destination == DirectoryDestination(entry)
           cmd == RobocopyCmd(PathStr(source), PathStr(destination))
       IN  /\ fs_dirs' = Mkdir(fs_dirs, destination)
           /\ log' = Append(log, Line("copy dir", <<PathStr(source), PathStr(destination)>>))
           /\ IF dry_run
              THEN /\ Continue("directories")
                   /\ UNCHANGED <<fs_content, executed, result>>
              ELSE \E code \in ExitCodes :
                     LET res == Completed(cmd, code)
                     IN  /\ executed' = Append(executed, cmd)
                         /\ result' = res
                         /\ IF RobocopyRaises(res)
                            THEN /\ Raise(CommandFailed("robocopy", res))
                                 /\ fs_content' = fs_content
                            ELSE /\ Continue("directories")
                                 /\ fs_content' = Mirror(fs_content, destination, source)
    /\ UNCHANGED <<config, dry_run, start_dirs, start_content, preview, traceVars, convVars,
                   hostVars, stubVars>>

\* copy_file(source, destination, dry_run), inside the loop of cat
copy_file(source, destination, cat) ==
    /\ log' = Append(log, Line("copy file", <<PathStr(source), PathStr(destination)>>))
    /\ IF dry_run
       THEN /\ Continue(cat)
            /\ fs_content' = fs_content
       ELSE \E copied \in BOOLEAN :
              IF copied
              THEN /\ Continue(cat)
                   /\ fs_content' = Put(fs_content, destination, [kind |-> "copy", data |-> source])
              ELSE /\ Raise(CopyFailed)
                   /\ fs_content' = fs_content
    /\ UNCHANGED <<config, dry_run, start_dirs, start_content, executed, result,
                   preview, traceVars, convVars,
                   hostVars, stubVars>>

\* main, lines 304-307, and copy_file
CopyFile ==
    /\ pc = "files"
    /\ LET source == expand_path(config.files[idx])
           destination == prog_files_dir \o <<PathName(source)>>
       IN  /\ fs_dirs' = Mkdir(fs_dirs, PathParent(destination))
           /\ copy_file(source, destination, "files")

\* run_command(cmd, dry_run) inside the loop of cat; written[res] is what
\* the output directory holds once the command has succeeded with result res
run_command(cmd, cat, written) ==
    /\ log' = Append(log, Line("cmd", cmd))
    /\ IF dry_run
       THEN /\ Continue(cat)
            /\ UNCHANGED <<fs_content, executed, result>>
       ELSE \E code \in ExitCodes :
              LET res == Completed(cmd, code)
              IN  /\ executed' = Append(executed, cmd)
                  /\ result' = res
                  /\ IF CommandRaises(res)
                     THEN /\ Raise(CommandFailed("command", res))
                          /\ fs_content' = fs_content
                     ELSE /\ Continue(cat)
                          /\ fs_content' = written[res]
    /\ UNCHANGED <<config, dry_run, start_dirs, start_content, preview, traceVars, convVars,
                   hostVars, stubVars>>

\* main, lines 309-312, and export_registry
ExportRegistry ==
    /\ pc = "registry_keys"
    /\ LET key == config.registry_keys[idx]
           destination == registry_dir \o <<sanitize_name(key) \o <<".","r","e","g">>>>
           cmd == RegCmd(key, destination)
           exported == [res \in Results(cmd) |->
                          Put(fs_content, destination, [kind |-> "reg", data |-> key])]
       IN  /\ fs_dirs' = Mkdir(fs_dirs, PathParent(destination))
           /\ run_command(cmd, "registry_keys", exported)

\* capture_service: what is written to the capture file
ServiceCapture(qc_stdout, description) ==
    <<qc_stdout, <<"\n">>>> \o (IF description # <<>> THEN <<description>> ELSE <<>>)

\* the description taken whatever sc qdescription returned
DescriptionIgnoringExitCode(description_result) == description_result.stdout

\* capture_service: the description kept from the sc qdescription result
Description(description_result) ==
    IF description_result.returncode = 0 THEN description_result.stdout ELSE <<>>

\* the capture file of a service
ServiceTarget(service_name) ==
    services_dir \o <<sanitize_name(service_name) \o <<".","t","x","t">>>>

\* main, lines 314-315, and capture_service up to the configuration query
\* (lines 101-104); a dry run returns at line 116 with nothing else done
CaptureServiceQuery ==
    /\ pc = "services"
    /\ LET service_name == config.services[idx]
           cmd == ScQcCmd(service_name)
       IN  /\ fs_dirs' = Mkdir(fs_dirs, services_dir)
           /\ log' = Append(log, Line("cmd", cmd))
           /\ IF dry_run
              THEN /\ Continue("services")
                   /\ UNCHANGED <<executed, result>>
              ELSE \E code \in ExitCodes :
                     LET res == Completed(cmd, code)
                     IN  /\ executed' = Append(executed, cmd)
                         /\ result' = res
                         /\ IF CommandRaises(res)
                            THEN Raise(CommandFailed("command", res))
                            ELSE /\ pc' = "service_description"
                                 /\ UNCHANGED <<idx, error>>
    /\ UNCHANGED <<config, dry_run, fs_content, start_dirs, start_content,
                   preview, traceVars, convVars,
                   hostVars, stubVars>>

\* capture_service from the description query on (lines 105-121); result
\* holds the configuration query's CompletedProcess
CaptureServiceWrite ==
    /\ pc = "service_description"
    /\ LET service_name == config.services[idx]
           cmd == ScQdescriptionCmd(service_name)
       IN  \E code \in ExitCodes :
             LET description_result == Completed(cmd, code)
             IN  /\ executed' = Append(executed, cmd)
                 /\ result' = description_result
                 /\ fs_content' =
                      Put(fs_content, ServiceTarget(service_name),
                          [kind |-> "text",
                           data |-> ServiceCapture(result.stdout,
                                                   Description(description_result))])
    /\ Continue("services")
    /\ UNCHANGED <<config, dry_run, fs_dirs, start_dirs, start_content, log,
                   preview, traceVars, convVars,
                   hostVars, stubVars>>

\* main, lines 317-318, and capture_scheduled_task
CaptureScheduledTask ==
    /\ pc = "scheduled_tasks"
    /\ LET task_name == config.scheduled_tasks[idx]
           sanitized == sanitize_name(StripChars(task_name, {"\\", "/"}))
           target == tasks_dir \o <<sanitized \o <<".","x","m","l">>>>
           cmd == SchtasksCmd(task_name)
           captured == [res \in Results(cmd) |->
                          Put(fs_content, target, [kind |-> "text", data |-> <<res.stdout>>])]
       IN  /\ fs_dirs' = Mkdir(fs_dirs, tasks_dir)
           /\ run_command(cmd, "scheduled_tasks", captured)

\* main, lines 320-322, and copy_shortcut
CopyShortcut ==
    /\ pc = "shortcuts"
    /\ LET source == expand_path(config.shortcuts[idx])
           destination == shortcuts_dir \o <<PathName(source)>>
       IN  /\ fs_dirs' = Mkdir(Mkdir(fs_dirs, shortcuts_dir), PathParent(destination))
           /\ copy_file(source, destination, "shortcuts")

(***************************************************************************)
(* portable_packager.py: the manifest record and the restore template.     *)
(***************************************************************************)
\* str.lower() of one character
LowerChar(char) ==
    LET upper == <<"A","B","C","D","E","F","G","H","I","J","K","L","M","N","O","P","Q",
                   "R","S","T","U","V","W","X","Y","Z">>
        lower == <<"a","b","c","d","e","f","g","h","i","j","k","l","m","n","o","p","q",
                   "r","s","t","u","v","w","x","y","z">>
    IN  IF \E k \in 1..26 : upper[k] = char
        THEN lower[CHOOSE k \in 1..26 : upper[k] = char]
        ELSE char

\* str.lower()
Lower(value) == [i \in 1..Len(value) |-> LowerChar(value[i])]

\* value.startswith(prefix)
StartsWith(value, prefix) ==
    Len(prefix) <= Len(value) /\ SubSeq(value, 1, Len(prefix)) = prefix

\* sub in value
Contains(value, sub) ==
    \E k \in 0..(Len(value) - Len(sub)) : SubSeq(value, k + 1, k + Len(sub)) = sub

RECURSIVE SplitAt(_, _, _)
\* value.split(sep) for a one-character sep; piece is the part being read
SplitAt(value, sep, piece) ==
    IF value = <<>> THEN <<piece>>
    ELSE IF value[1] = sep THEN <<piece>> \o SplitAt(Tail(value), sep, <<>>)
    ELSE SplitAt(Tail(value), sep, Append(piece, value[1]))

Split(value, sep) == SplitAt(value, sep, <<>>)

S_localappdata == <<"l","o","c","a","l","a","p","p","d","a","t","a">>
S_appdata == <<"a","p","p","d","a","t","a">>
S_appdata_local == S_appdata \o <<"\\","l","o","c","a","l">>

\* entry.get("target") or Path(entry["path"]).name
TargetOf(entry) ==
    IF entry.target = NoTarget THEN PathName(entry.path) ELSE PathStr(entry.target)

\* determine_destination_base
determine_destination_base(entry) ==
    LET lower_target == Lower(TargetOf(entry))
    IN  IF \/ Contains(lower_target, S_localappdata)
           \/ Contains(lower_target, <<"\\">> \o S_appdata_local)
           \/ Contains(lower_target, S_appdata_local)
        THEN "%LocalAppData%"
        ELSE IF Contains(lower_target, S_appdata) THEN "%AppData%"
        ELSE IF entry.type = "program" THEN "%ProgramFiles%"
        ELSE "%ProgramData%"

\* "\\".join(parts) or "."
JoinOrDot(parts) ==
    IF Join(parts, <<"\\">>) = <<>> THEN <<".">> ELSE Join(parts, <<"\\">>)

\* restore_target_suffix
restore_target_suffix(entry) ==
    LET target == TargetOf(entry)
        lower_target == Lower(target)
        parts == Split(target, "\\")
    IN  IF Contains(lower_target, S_localappdata) /\ Lower(parts[1]) = S_localappdata
        THEN JoinOrDot(Tail(parts))
        ELSE IF StartsWith(lower_target, S_appdata_local \o <<"\\">>)
        THEN JoinOrDot(Tail(Tail(parts)))
        ELSE IF StartsWith(lower_target, S_appdata \o <<"\\">>)
        THEN SubSeq(target, Len(S_appdata) + 2, Len(target))
        ELSE target

\* a payload that leaves the shortcuts of the manifest out
PayloadWithoutShortcuts(cfg) ==
    [app_name |-> cfg.app_name, directories |-> cfg.directories, files |-> cfg.files,
     registry_keys |-> cfg.registry_keys, services |-> cfg.services,
     scheduled_tasks |-> cfg.scheduled_tasks, shortcuts |-> <<>>]

\* main, lines 280-288
Payload(cfg) ==
    [app_name |-> cfg.app_name, directories |-> cfg.directories, files |-> cfg.files,
     registry_keys |-> cfg.registry_keys, services |-> cfg.services,
     scheduled_tasks |-> cfg.scheduled_tasks, shortcuts |-> cfg.shortcuts]

\* write_restore_stub: the commands of the template, one record per REM line
RestoreLines(payload) ==
    [i \in 1..Len(payload.directories) |->
        LET entry == payload.directories[i]
        IN  [cmd |-> "robocopy",
             source |-> (IF entry.type = "program" THEN W_ProgramFiles ELSE W_ProgramData)
                        \o <<"\\">> \o TargetOf(entry),
             dest_base |-> determine_destination_base(entry),
             dest_suffix |-> restore_target_suffix(entry)]]
    \o [i \in 1..Len(payload.registry_keys) |->
        [cmd |-> "reg import",
         source |-> W_Registry \o <<"\\">> \o sanitize_name(payload.registry_keys[i])
                    \o <<".","r","e","g">>]]
    \o [i \in 1..Len(payload.services) |->
        [cmd |-> "type",
         source |-> W_Services \o <<"\\">> \o sanitize_name(payload.services[i])
                    \o <<".","t","x","t">>]]
    \o [i \in 1..Len(payload.scheduled_tasks) |->
        [cmd |-> "schtasks /create",
         tn |-> payload.scheduled_tasks[i],
         source |-> W_Tasks \o <<"\\">>
                    \o sanitize_name(StripChars(payload.scheduled_tasks[i], {"\\", "/"}))
                    \o <<".","x","m","l">>]]

\* main, line 324, and create_manifest
CreateManifest ==
    /\ pc = "manifest"
    /\ LET target == OutputDir \o <<W_manifest_json>>
       IN  /\ log' = Append(log, Line("manifest", <<PathStr(target)>>))
           /\ fs_content' =
                IF dry_run THEN fs_content
                ELSE Put(fs_content, target,
                         [kind |-> "json",
                          data |-> [generated_at |-> "utcnow", payload |-> Payload(config)]])
    /\ pc' = "restore"
    /\ UNCHANGED <<config, dry_run, idx, fs_dirs, start_dirs, start_content,
                   executed, result, error, preview, traceVars, convVars,
                   hostVars, stubVars>>

\* main, line 325, and write_restore_stub
WriteRestoreStub ==
    /\ pc = "restore"
    /\ LET restore_cmd == OutputDir \o <<W_Restore_cmd>>
       IN  /\ log' = Append(log, Line("restore stub", <<PathStr(restore_cmd)>>))
           /\ fs_content' =
                IF dry_run THEN fs_content
                ELSE Put(fs_content, restore_cmd,
                         [kind |-> "cmd", data |-> RestoreLines(Payload(config))])
    /\ pc' = "finish"
    /\ UNCHANGED <<config, dry_run, idx, fs_dirs, start_dirs, start_content,
                   executed, result, error, preview, traceVars, convVars,
                   hostVars, stubVars>>

\* main, line 326
Finish ==
    /\ pc = "finish"
    /\ log' = Append(log, Line("done", <<>>))
    /\ pc' = "done"
    /\ UNCHANGED <<config, dry_run, idx, fs_dirs, fs_content, start_dirs, start_content,
                   executed, result, error, preview, traceVars, convVars,
                   hostVars, stubVars>>

\* the script is run again without --dry-run on the manifest a dry run has
\* just previewed, into the same output path, emptied first or left as it is
RunForReal ==
    /\ pc = "done"
    /\ dry_run
    /\ preview' = log
    /\ dry_run' = FALSE
    /\ \E emptied \in BOOLEAN :
         /\ fs_dirs' = IF emptied THEN {OutputDir} ELSE fs_dirs
         /\ fs_content' = IF emptied THEN EmptyMap ELSE fs_content
    /\ start_dirs' = fs_dirs'
    /\ start_content' = fs_content'
    /\ pc' = "start"
    /\ idx' = 1
    /\ log' = <<>>
    /\ executed' = <<>>
    /\ result' = NoResult
    /\ error' = NoError
    /\ UNCHANGED <<config, traceVars, convVars,
                   hostVars, stubVars>>

PackNext ==
    \/ Prepare
    \/ ValidateDirectories
    \/ ValidateFiles
    \/ ValidateShortcuts
    \/ CopyDirectory
    \/ CopyFile
    \/ ExportRegistry
    \/ CaptureServiceQuery
    \/ CaptureServiceWrite
    \/ CaptureScheduledTask
    \/ CopyShortcut
    \/ CreateManifest
    \/ WriteRestoreStub
    \/ Finish
    \/ RunForReal

(***************************************************************************)
(* The parts of the state a specification does not use stay at these       *)
(* values: each program is a process of its own.                           *)
(***************************************************************************)
\* no packaging run: the state of the packager before main is called
PackIdle ==
    /\ config = CHOOSE m \in Manifests : \A f \in DOMAIN m \ {"app_name"} : m[f] = <<>>
    /\ dry_run = TRUE
    /\ idx = 1
    /\ fs_dirs = {}
    /\ fs_content = EmptyMap
    /\ start_dirs = {}
    /\ start_content = EmptyMap
    /\ log = <<>>
    /\ executed = <<>>
    /\ result = NoResult
    /\ error = NoError
    /\ preview = <<>>

\* no attribute value is being normalized
TraceIdle ==
    /\ raw = <<>>
    /\ norm = <<>>

\* what collect_paths holds before it has read an element
EmptyCollected == [file_paths |-> {}, registry_keys |-> {}, services |-> {}, tasks |-> {}]

\* what pick_directories_and_files holds before it has read a path
EmptyPicked == [directories |-> <<>>, files |-> <<>>]

\* no manifest has been built
NoConfig ==
    [app_name |-> <<>>, directories |-> <<>>, files |-> <<>>, registry_keys |-> <<>>,
     services |-> <<>>, scheduled_tasks |-> <<>>, shortcuts |-> <<>>]

\* no trace is being converted
ConvIdle ==
    /\ doc = {}
    /\ collected = EmptyCollected
    /\ reduced = <<>>
    /\ picked = EmptyPicked
    /\ built = NoConfig

\* no line of the restore template is being computed
StubIdle ==
    /\ stub_entry = [path |-> <<>>, target |-> <<>>, type |-> "data"]
    /\ dest_base = ""
    /\ dest_suffix = <<>>

\* no signal of Backend has been emitted
NoSignals == [operationStarted |-> 0, operationFinished |-> 0, operationFailed |-> 0]

\* the GUI backend has started no operation
HostIdle ==
    /\ workers = <<>>
    /\ signals = NoSignals
    /\ occupied = {}

(***************************************************************************)
(* trace_xml_to_config.py: normalize_path.                                 *)
(***************************************************************************)
\* the characters a raw attribute value is made of in the model
RawChars == {" ", "\"", "/", "\\", ":", "a", "H", "k"}

\* the raw attribute values given to normalize_path
RawValues == SeqsUpTo(RawChars, MaxLen)

\* the characters str.strip() removes
Whitespace == {" ", "\t", "\n", "\r"}

\* value.replace(old, new) for one-character strings
Replace(value, old, new) == [i \in 1..Len(value) |-> IF value[i] = old THEN new ELSE value[i]]

\* normalize_path
normalize_path(value) ==
    LET stripped == StripChars(StripChars(value, Whitespace), {"\""})
        replaced == Replace(stripped, "/", "\\")
    IN  IF replaced # <<>> /\ replaced[Len(replaced)] = ":"
        THEN Append(replaced, "\\")
        ELSE replaced

(***************************************************************************)
(* trace_xml_to_config.py: Windows paths.  A pathlib.Path of the converter *)
(* is a sequence whose first element is the anchor (drive and root, such   *)
(* as C:\) and whose other elements are the components.  The values given  *)
(* to WinPath start with a drive letter, a colon and a separator.          *)
(***************************************************************************)
RECURSIVE RStrip(_, _)
\* value.rstrip(chars)
RStrip(value, chars) ==
    IF value # <<>> /\ value[Len(value)] \in chars
    THEN RStrip(SubSeq(value, 1, Len(value) - 1), chars)
    ELSE value

\* Path(value): doubled separators collapse, a trailing separator and a
\* component "." are dropped
WinPath(value) ==
    LET anchor == SubSeq(value, 1, 3)
        pieces == Split(SubSeq(value, 4, Len(value)), "\\")
    IN  <<anchor>> \o SelectSeq(pieces, LAMBDA piece : piece # <<>> /\ piece # <<".">>)

\* str(path)
WinStr(path) == path[1] \o Join(Tail(path), <<"\\">>)

\* path.name: empty for the root of a drive
WinName(path) == IF Len(path) = 1 THEN <<>> ELSE path[Len(path)]

\* path.parent: the root of a drive is its own parent
WinParent(path) == IF Len(path) = 1 THEN path ELSE SubSeq(path, 1, Len(path) - 1)

\* path.suffix: from the last dot of the name, when that dot is neither the
\* first nor the last character of the name
WinSuffix(path) ==
    LET name == WinName(path)
        dots == {k \in 1..Len(name) : name[k] = "."}
        last == CHOOSE k \in dots : \A j \in dots : j <= k
    IN  IF dots # {} /\ 1 < last /\ last < Len(name)
        THEN SubSeq(name, last, Len(name))
        ELSE <<>>

\* the environment of the converter: ProgramFiles is C:\P, ProgramFiles(x86)
\* is C:\P6, ProgramData is C:\D, APPDATA and LOCALAPPDATA are not set
PROGRAM_ROOTS == << WinPath(<<"C",":","\\","P">>), WinPath(<<"C",":","\\","P","6">>) >>

DATA_ROOTS == << WinPath(<<"C",":","\\","D">>) >>

S_programdata == <<"p","r","o","g","r","a","m","d","a","t","a">>

\* the tokens "\\appdata\\" and "\\programdata\\"
RootTokens == { <<"\\">> \o S_appdata \o <<"\\">>, <<"\\">> \o S_programdata \o <<"\\">> }

\* is_subpath
is_subpath(child, parent) ==
    LET child_norm == Lower(RStrip(child, {"\\"}))
        parent_norm == Lower(RStrip(parent, {"\\"}))
    IN  child_norm = parent_norm \/ StartsWith(child_norm, parent_norm \o <<"\\">>)

\* the least length of the strings of a non-empty set
MinLen(paths) == CHOOSE n \in {Len(p) : p \in paths} : \A p \in paths : n <= Len(p)

RECURSIVE SortedByLen(_)
\* sorted(set(paths), key=len): the sort is stable, and a set of strings is
\* iterated in an order that depends on the hash seed of the process, so
\* paths of equal length come in any order
SortedByLen(paths) ==
    IF paths = {} THEN { <<>> }
    ELSE UNION { { <<first>> \o rest : rest \in SortedByLen(paths \ {first}) } :
                 first \in {p \in paths : Len(p) = MinLen(paths)} }

RECURSIVE ReduceFrom(_, _)
\* the loop of reduce_paths over the sorted paths
ReduceFrom(order, kept) ==
    IF order = <<>> THEN kept
    ELSE IF \E k \in 1..Len(kept) : is_subpath(order[1], kept[k])
         THEN ReduceFrom(Tail(order), kept)
         ELSE ReduceFrom(Tail(order), Append(kept, order[1]))

\* reduce_paths, given the order in which sorted() returned the paths
reduce_paths(order) == ReduceFrom(order, <<>>)

\* categorize_directory: both branches after the loop return "data"
categorize_directory(path) ==
    LET lower == Lower(path)
    IN  IF \E k \in 1..Len(PROGRAM_ROOTS) : StartsWith(lower, Lower(WinStr(PROGRAM_ROOTS[k])))
        THEN "program"
        ELSE IF \E token \in RootTokens : Contains(lower, token)
        THEN "data"
        ELSE "data"

\* is_within_known_root
is_within_known_root(path) ==
    LET lower == Lower(WinStr(path))
        roots == PROGRAM_ROOTS \o DATA_ROOTS
    IN  \/ \E k \in 1..Len(roots) : StartsWith(lower, Lower(WinStr(roots[k])))
        \/ \E token \in RootTokens : Contains(lower, token)

\* candidate_str.replace(":", "")
WithoutColons(value) == SelectSeq(value, LAMBDA char : char # ":")

\* the directory boundary of a path under a known root
Candidate(raw_path) ==
    LET path_obj == WinPath(raw_path)
    IN  IF WinSuffix(path_obj) # <<>> /\ raw_path[Len(raw_path)] # "\\"
        THEN WinParent(path_obj)
        ELSE path_obj

\* the entry stored in directory_map for a candidate
DirectoryEntry(candidate) ==
    [path |-> WinStr(candidate),
     target |-> IF WinName(candidate) # <<>> THEN WinName(candidate)
                ELSE WithoutColons(WinStr(candidate)),
     type |-> categorize_directory(WinStr(candidate))]

RECURSIVE PickFrom(_, _)
\* the loop of pick_directories_and_files: directories is directory_map in
\* insertion order
PickFrom(paths, acc) ==
    IF paths = <<>> THEN acc
    ELSE LET raw_path == paths[1]
             entry == DirectoryEntry(Candidate(raw_path))
         IN  IF is_within_known_root(WinPath(raw_path))
             THEN IF \E k \in 1..Len(acc.directories) : acc.directories[k].path = entry.path
                  THEN PickFrom(Tail(paths), acc)
                  ELSE PickFrom(Tail(paths),
                                [acc EXCEPT !.directories = Append(@, entry)])
             ELSE PickFrom(Tail(paths), [acc EXCEPT !.files = Append(@, raw_path)])

RECURSIVE SortEntriesByLen(_)
\* sorted(directory_map.keys(), key=len): stable, ties keep insertion order
SortEntriesByLen(entries) ==
    IF entries = <<>> THEN <<>>
    ELSE LET shortest == CHOOSE k \in 1..Len(entries) :
                             /\ \A j \in 1..Len(entries) : Len(entries[k].path) <= Len(entries[j].path)
                             /\ \A j \in 1..(k - 1) : Len(entries[j].path) > Len(entries[k].path)
         IN  <<entries[shortest]>> \o
             SortEntriesByLen([j \in 1..(Len(entries) - 1) |->
                                  IF j < shortest THEN entries[j] ELSE entries[j + 1]])

\* pick_directories_and_files, given the list reduce_paths returned
pick_directories_and_files(reduced_paths) ==
    LET acc == PickFrom(reduced_paths, EmptyPicked)
    IN  [directories |-> SortEntriesByLen(acc.directories), files |-> acc.files]

(***************************************************************************)
(* trace_xml_to_config.py: collect_paths and build_config.                 *)
(***************************************************************************)
\* the attributes collect_paths reads; an attribute an element does not
\* have holds the empty string: the code treats None and "" alike
AttrNames == {"Path", "path", "Location", "location", "Target", "target", "Name", "name"}

\* the path-bearing attributes, in the order collect_paths reads them
PathAttributes == <<"Path", "path", "Location", "location", "Target", "target">>

UpperChar(char) ==
    LET upper == <<"A","B","C","D","E","F","G","H","I","J","K","L","M","N","O","P","Q",
                   "R","S","T","U","V","W","X","Y","Z">>
        lower == <<"a","b","c","d","e","f","g","h","i","j","k","l","m","n","o","p","q",
                   "r","s","t","u","v","w","x","y","z">>
    IN  IF \E k \in 1..26 : lower[k] = char
        THEN upper[CHOOSE k \in 1..26 : lower[k] = char]
        ELSE char

\* str.upper()
Upper(value) == [i \in 1..Len(value) |-> UpperChar(value[i])]

\* collect_paths, lines 47-57: what one attribute value adds to the sets
AddValue(buckets, value) ==
    IF value = <<>> THEN buckets
    ELSE LET path == normalize_path(value)
         IN  IF StartsWith(Upper(path), <<"H","K">>)
             THEN [buckets EXCEPT !.registry_keys = @ \union {path}]
             ELSE IF StartsWith(path, <<"\\">>) /\ ~StartsWith(Tail(path), <<"\\">>)
             THEN [buckets EXCEPT !.tasks = @ \union {path}]
             ELSE IF (\E k \in 1..Len(path) : path[k] = ":") \/ StartsWith(path, <<"\\","\\">>)
             THEN [buckets EXCEPT !.file_paths = @ \union {path}]
             ELSE buckets

RECURSIVE AddAttributes(_, _, _)
\* collect_paths, line 46: the loop over the path-bearing attributes
AddAttributes(buckets, attrib, names) ==
    IF names = <<>> THEN buckets
    ELSE AddAttributes(AddValue(buckets, attrib[names[1]]), attrib, Tail(names))

\* collect_paths, lines 58-62: the Name of a service or task element
AddName(buckets, elem) ==
    LET name_value == IF elem.attrib["Name"] # <<>> THEN elem.attrib["Name"]
                      ELSE elem.attrib["name"]
        tag == Lower(elem.tag)
        name == StripChars(name_value, Whitespace)
        with_service ==
            IF name_value # <<>> /\ StartsWith(tag, <<"s","e","r","v","i","c","e">>)
            THEN [buckets EXCEPT !.services = @ \union {name}]
            ELSE buckets
    IN  IF StartsWith(tag, <<"t","a","s","k">>) /\ name_value # <<>>
        THEN [with_service EXCEPT !.tasks = @ \union {name}]
        ELSE with_service

RECURSIVE CollectFrom(_, _)
\* collect_paths, line 45: the loop over the elements; the four results are
\* sets, so the order of the elements does not matter
CollectFrom(elems, buckets) ==
    IF elems = {} THEN buckets
    ELSE LET elem == CHOOSE e \in elems : TRUE
         IN  CollectFrom(elems \ {elem},
                         AddName(AddAttributes(buckets, elem.attrib, PathAttributes), elem))

\* collect_paths
collect_paths(elems) == CollectFrom(elems, EmptyCollected)

\* the characters of the model in the order of their code points
CodePoints ==
    <<" ", "\"", ".", "/", "0", "1", "2", "3", "4", "5", "6", "7", "8", "9", ":",
      "A","B","C","D","E","F","G","H","I","J","K","L","M","N","O","P","Q","R","S",
      "T","U","V","W","X","Y","Z", "\\", "_",
      "a","b","c","d","e","f","g","h","i","j","k","l","m","n","o","p","q","r","s",
      "t","u","v","w","x","y","z">>

CodePoint(char) == CHOOSE k \in 1..Len(CodePoints) : CodePoints[k] = char

RECURSIVE StrLess(_, _)
\* left < right for Python strings
StrLess(left, right) ==
    IF right = <<>> THEN FALSE
    ELSE IF left = <<>> THEN TRUE
    ELSE IF left[1] = right[1] THEN StrLess(Tail(left), Tail(right))
    ELSE CodePoint(left[1]) < CodePoint(right[1])

RECURSIVE Sorted(_)
\* sorted(values) for a set of strings
Sorted(values) ==
    IF values = {} THEN <<>>
    ELSE LET least == CHOOSE v \in values : \A w \in values \ {v} : StrLess(v, w)
         IN  <<least>> \o Sorted(values \ {least})

\* xml_path.stem of the trace file
TraceStem == <<"F","o","o">>

\* build_config, lines 130-138, given what collect_paths and
\* pick_directories_and_files returned
build_config(app_name, sets, chosen) ==
    [app_name |-> IF app_name # <<>> THEN app_name ELSE TraceStem,
     directories |-> chosen.directories,
     files |-> chosen.files,
     registry_keys |-> Sorted(sets.registry_keys),
     services |-> Sorted(sets.services),
     scheduled_tasks |-> Sorted(sets.tasks),
     shortcuts |-> <<>>]

\* collect_paths, line 50: an attribute value is normalized
Normalize ==
    /\ pc = "raw"
    /\ norm' = normalize_path(raw)
    /\ pc' = "normalized"
    /\ UNCHANGED <<raw, packVarsButPc, convVars, hostVars, stubVars>>

\* a value that normalize_path returned is given to normalize_path again
NormalizeAgain ==
    /\ pc = "normalized"
    /\ raw' = norm
    /\ norm' = normalize_path(norm)
    /\ pc' = "renormalized"
    /\ UNCHANGED <<packVarsButPc, convVars, hostVars, stubVars>>

\* collect_paths, lines 51-56: the normalized value is put in a set
Classify ==
    /\ pc = "normalized"
    /\ collected' = AddValue(EmptyCollected, raw)
    /\ pc' = "classified"
    /\ UNCHANGED <<packVarsButPc, traceVars, doc, reduced, picked, built, hostVars, stubVars>>

TraceInit ==
    /\ raw \in RawValues
    /\ norm = <<>>
    /\ pc = "raw"
    /\ PackIdle
    /\ ConvIdle
    /\ HostIdle
    /\ StubIdle

TraceNext ==
    \/ Normalize
    \/ NormalizeAgain
    \/ Classify

TraceSpec == TraceInit /\ [][TraceNext]_vars

(***************************************************************************)
(* trace_xml_to_config.py: the conversion of an uninstall trace.           *)
(***************************************************************************)
\* the most elements a trace has in the model
MaxElems == 2

\* the file-system paths that occur in the traces of the model
TraceFiles ==
    { <<"C",":","\\","P","\\","x","\\","a",".","e">>,
      <<"C",":","\\","P","\\","x","\\","y">>,
      <<"C",":","\\","P","\\","x">>,
      <<"C",":","\\","P","\\","x","\\","\\","\\">>,
      <<"C",":","\\","P","E","\\","X">>,
      <<"C",":","\\","D","\\","d">>,
      <<"C",":","\\","z","\\","f",".","t">>,
      <<"c",":","/","p","/","X","/">>,
      <<"C",":","\\","P","\\","a",".","e">>,
      <<"C",":","\\","P","\\","\\","a",".","e","\\">> }

\* the registry keys, task paths and relative values that occur in them
TraceKeys == { <<"H","K","C","U","\\","F">>, <<"h","k","c","u","\\","f">> }

TraceTaskPaths == { <<"\\","T">> }

TraceRelative == { <<"r","e","l">> }

\* the Name attributes of the service elements
TraceServices == { <<"S","v","c">>, <<"s","v","c">>, <<" ","S","v","c"," ">> }

\* the attributes of an element that has one attribute
Attr(key, value) == [k \in AttrNames |-> IF k = key THEN value ELSE <<>>]

\* the elements a trace is made of
Elements ==
    { [tag |-> <<"F","i","l","e">>, attrib |-> Attr("Path", v)] : v \in TraceFiles }
    \union { [tag |-> <<"K","e","y">>, attrib |-> Attr("Location", v)] : v \in TraceKeys }
    \union { [tag |-> <<"I","t","e","m">>, attrib |-> Attr("target", v)] :
               v \in TraceTaskPaths \union TraceRelative }
    \union { [tag |-> <<"S","e","r","v","i","c","e">>, attrib |-> Attr("Name", v)] :
               v \in TraceServices }
    \union { [tag |-> <<"T","a","s","k">>, attrib |-> Attr("name", <<"T">>)] }
    \union { [tag |-> <<"S","e","r","v","i","c","e","s">>,
               attrib |-> [Attr("name", <<"S","v","c">>) EXCEPT
                              !["path"] = <<"C",":","\\","D","\\","d">>]] }

RECURSIVE DocsUpTo(_)
\* the traces of at most n elements
DocsUpTo(n) ==
    IF n = 0 THEN { {} }
    ELSE DocsUpTo(n - 1) \union { d \union {e} : d \in DocsUpTo(n - 1), e \in Elements }

\* the app_name argument of build_config: None or a given name
AppNames == { <<>>, <<"B","a","r">> }

\* build_config, line 128: collect_paths(root)
CollectPaths ==
    /\ pc = "parsed"
    /\ collected' = collect_paths(doc)
    /\ pc' = "collected"
    /\ UNCHANGED <<packVarsButPc, traceVars, doc, reduced, picked, built, hostVars, stubVars>>

\* pick_directories_and_files, line 104: reduce_paths(paths)
ReducePaths ==
    /\ pc = "collected"
    /\ \E order \in SortedByLen(collected.file_paths) : reduced' = reduce_paths(order)
    /\ pc' = "reduced"
    /\ UNCHANGED <<packVarsButPc, traceVars, doc, collected, picked, built, hostVars, stubVars>>

\* build_config, line 129: the rest of pick_directories_and_files
PickDirectoriesAndFiles ==
    /\ pc = "reduced"
    /\ picked' = pick_directories_and_files(reduced)
    /\ pc' = "picked"
    /\ UNCHANGED <<packVarsButPc, traceVars, doc, collected, reduced, built, hostVars, stubVars>>

\* build_config, lines 130-139
BuildConfig ==
    /\ pc = "picked"
    /\ \E app_name \in AppNames : built' = build_config(app_name, collected, picked)
    /\ pc' = "built"
    /\ UNCHANGED <<packVarsButPc, traceVars, doc, collected, reduced, picked, hostVars, stubVars>>

\* build_config, lines 126-127: the trace has been parsed
ConvertInit ==
    /\ doc \in DocsUpTo(MaxElems)
    /\ collected = EmptyCollected
    /\ reduced = <<>>
    /\ picked = EmptyPicked
    /\ built = NoConfig
    /\ pc = "parsed"
    /\ PackIdle
    /\ TraceIdle
    /\ HostIdle
    /\ StubIdle

ConvertNext ==
    \/ CollectPaths
    \/ ReducePaths
    \/ PickDirectoriesAndFiles
    \/ BuildConfig

ConvertSpec == ConvertInit /\ [][ConvertNext]_vars

Init ==
    /\ PackInit
    /\ TraceIdle
    /\ ConvIdle
    /\ HostIdle
    /\ StubIdle

Next == PackNext

Spec == Init /\ [][Next]_vars

(***************************************************************************)
(* Properties of a packaging run.                                          *)
(***************************************************************************)
\* every source path the manifest names exists
ManifestValid ==
    /\ \A i \in 1..Len(config.directories) : config.directories[i].path \in ExistingPaths
    /\ \A i \in 1..Len(config.files) : config.files[i] \in ExistingPaths
    /\ \A i \in 1..Len(config.shortcuts) : config.shortcuts[i] \in ExistingPaths

\* the source paths of the manifest that do not exist, of all categories
AllMissing ==
    ({ config.directories[i].path : i \in 1..Len(config.directories) }
        \cup { config.files[i] : i \in 1..Len(config.files) }
        \cup { config.shortcuts[i] : i \in 1..Len(config.shortcuts) })
    \ ExistingPaths

\* the output directory existed and held something when the run started
OccupiedAtStart ==
    OutputDir \in start_dirs /\ Iterdir(start_dirs, start_content, OutputDir) # {}

\* nothing under the output path differs from what the run started with
OutputUntouched == fs_dirs = start_dirs /\ fs_content = start_content

\* the number of printed lines with this tag
CountTag(lines, tag) == Cardinality({ i \in 1..Len(lines) : lines[i].tag = tag })

\* the main run has passed its first statements
Started == pc \notin {"start", "raw", "normalized", "renormalized"}

\* C1: a dry run of a manifest whose source paths all exist creates no
\* directory, writes no file and runs no external tool, and its finished
\* log holds at least one line of an intended command.
C1_DryRunMutatesNothing ==
    (dry_run /\ ManifestValid) =>
        /\ OutputUntouched
        /\ executed = <<>>
        /\ pc = "done" => \E i \in 1..Len(log) : log[i].tag \notin {"info", "done"}

\* C2: a real run into an output directory that exists and holds an entry
\* fails with the output-not-empty error; no capture operation, no manifest
\* write and no restore-template write is performed, and the directory is
\* left as it was.
C2_OccupiedOutputRefused ==
    (~dry_run /\ OccupiedAtStart /\ Started) =>
        /\ pc = "failed"
        /\ error = OutputNotEmpty
        /\ executed = <<>>
        /\ \A i \in 1..Len(log) : log[i].tag = "info"
        /\ OutputUntouched

C2_Witness ==
    /\ ~dry_run
    /\ OccupiedAtStart
    /\ pc = "failed"
    /\ Len(config.directories) > 0
    /\ Len(config.services) > 0

\* C3: the validation error of a run lists every missing source path of
\* the manifest, of all three checked categories.
C3_AllMissingListed ==
    error.kind = "FileNotFoundError" =>
        { error.missing[i] : i \in 1..Len(error.missing) } = AllMissing

\* C4: a run that fails with the validation error, its manifest naming a
\* missing source, has created no directory and written no file.
C4_ValidationBeforeMutation ==
    error.kind = "FileNotFoundError" => OutputUntouched

\* the last external command run was this tool
IsTool(res, tool) == res.args # <<>> /\ res.args[1] = tool

\* the last external command run was the service configuration query
IsQc(res) == IsTool(res, W_sc) /\ res.args[2] = W_qc

\* the last external command of a real run exited outside its success set
ToolFailed ==
    /\ ~dry_run
    /\ \/ IsTool(result, W_robocopy) /\ result.returncode \notin 0..7
       \/ (IsTool(result, W_reg) \/ IsTool(result, W_schtasks) \/ IsQc(result))
            /\ result.returncode # 0

\* a capture step of the run has failed
StepFailed == ToolFailed \/ error.kind = "OSError"

\* C5: once a capture step of a real run fails the run ends as failed:
\* neither manifest.json nor Restore_Template.cmd is written and the done
\* message is never printed, no later step runs or writes anything, and
\* what the earlier steps wrote is left in place.
C5_FailFastNoRollback ==
    /\ [](StepFailed =>
            /\ pc = "failed"
            /\ error.kind \in {"RuntimeError", "OSError"}
            /\ OutputDir \o <<W_manifest_json>> \notin DOMAIN fs_content
            /\ OutputDir \o <<W_Restore_cmd>> \notin DOMAIN fs_content
            /\ CountTag(log, "manifest") + CountTag(log, "restore stub")
                 + CountTag(log, "done") = 0)
    /\ [][StepFailed => UNCHANGED <<fs_dirs, fs_content, executed, log, pc>>]_vars
    /\ [][(~StepFailed /\ StepFailed') =>
            /\ fs_dirs \subseteq fs_dirs'
            /\ \A p \in DOMAIN fs_content :
                 p \in DOMAIN fs_content' /\ fs_content'[p] = fs_content[p]]_vars

C5_Witness ==
    /\ StepFailed
    /\ IsTool(result, W_reg)
    /\ \E p \in DOMAIN fs_content : fs_content[p].kind = "mirror"
    /\ Len(config.services) > 0

\* C6: a robocopy run is a success exactly when its exit code is in 0..7;
\* a reg export, sc qc or schtasks run exactly when its exit code is 0;
\* every failure raises an error holding the exit code, stdout and stderr.
C6_SuccessPredicates ==
    ~dry_run =>
        /\ IsTool(result, W_robocopy) =>
             (error.kind = "RuntimeError" <=> result.returncode \notin 0..7)
        /\ (IsTool(result, W_reg) \/ IsTool(result, W_schtasks) \/ IsQc(result)) =>
             (error.kind = "RuntimeError" <=> result.returncode # 0)
        /\ error.kind = "RuntimeError" =>
             /\ pc = "failed"
             /\ error.returncode = result.returncode
             /\ error.stdout = result.stdout
             /\ error.stderr = result.stderr

C6_Witness ==
    /\ ~dry_run
    /\ IsTool(result, W_robocopy)
    /\ result.returncode = 7
    /\ error.kind = "none"
    /\ pc # "failed"

\* C7: in a real run, a failing sc qc ends the run with no capture file
\* written by that capture; after a successful sc qc the run goes on
\* whatever sc qdescription returns, and the capture file holds the
\* configuration output, a newline, and then the description output when
\* sc qdescription exited with 0 and nothing when it did not.
C7_ServiceCapture ==
    [][/\ (pc = "services" /\ ~dry_run /\ result'.returncode # 0) =>
            /\ pc' = "failed"
            /\ error'.kind = "RuntimeError"
            /\ fs_content' = fs_content
       /\ (pc = "services" /\ ~dry_run /\ result'.returncode = 0) =>
            /\ pc' = "service_description"
            /\ fs_content' = fs_content
       /\ pc = "service_description" =>
            /\ pc' # "failed"
            /\ error' = NoError
            /\ fs_content'[ServiceTarget(config.services[idx])].data =
                 IF result'.returncode = 0
                 THEN <<result.stdout, <<"\n">>, result'.stdout>>
                 ELSE <<result.stdout, <<"\n">>>>]_vars

C7_Witness ==
    /\ IsTool(result, W_sc)
    /\ result.args[2] = W_qdescription
    /\ result.returncode # 0
    /\ pc \notin {"failed", "service_description"}
    /\ \E p \in DOMAIN fs_content :
         fs_content[p].kind = "text" /\ fs_content[p].data = <<StdoutOf(0), <<"\n">>>>

RECURSIVE LoggedInvocations(_)
\* the external commands that the printed lines announce: a [cmd] line its
\* command line, a [copy dir] line the robocopy run of its two paths
LoggedInvocations(lines) ==
    IF lines = <<>> THEN <<>>
    ELSE (IF lines[1].tag = "cmd" THEN <<lines[1].args>>
          ELSE IF lines[1].tag = "copy dir"
               THEN <<RobocopyCmd(lines[1].args[1], lines[1].args[2])>>
          ELSE <<>>)
         \o LoggedInvocations(Tail(lines))

\* every sc qdescription of the run succeeded: each capture file of a
\* service holds a description
DescriptionsCaptured ==
    \A i \in 1..Len(config.services) :
        /\ ServiceTarget(config.services[i]) \in DOMAIN fs_content
        /\ Len(fs_content[ServiceTarget(config.services[i])].data) = 3

\* C8: the external commands a dry run logs are, in order, the external
\* commands a real run of the same manifest executes when every tool
\* succeeds.
C8_DryRunIsFaithfulPreview ==
    (~dry_run /\ preview # <<>> /\ pc = "done" /\ DescriptionsCaptured) =>
        LoggedInvocations(preview) = executed

\* the lines of the capture, manifest and restore-template steps are printed
PlanLogged ==
    /\ CountTag(log, "copy dir") = Len(config.directories)
    /\ CountTag(log, "copy file") = Len(config.files) + Len(config.shortcuts)
    /\ CountTag(log, "cmd") =
         Len(config.registry_keys) + Len(config.services) + Len(config.scheduled_tasks)
    /\ CountTag(log, "manifest") = 1
    /\ CountTag(log, "restore stub") = 1

C10_NormalizeIdempotent ==
    pc = "renormalized" => norm = raw

(***************************************************************************)
(* Properties of the conversion of a trace.                                *)
(***************************************************************************)
\* the elements of a list
Range(list) == { list[k] : k \in 1..Len(list) }

\* reduce_paths has returned
Reduced == pc \in {"reduced", "picked", "built"}

\* C11: the list reduce_paths returns (a) holds only paths of its input,
\* (b) holds no path that is a sub-path (is_subpath) of another path it
\* holds, and (c) holds, for every path of the input, that path or a path it
\* is a sub-path of; paths may end with one or several separators.
C11_ReductionLaw ==
    Reduced =>
        /\ Range(reduced) \subseteq collected.file_paths
        /\ \A j, k \in 1..Len(reduced) : j # k => ~is_subpath(reduced[j], reduced[k])
        /\ \A p \in collected.file_paths : \E q \in Range(reduced) : is_subpath(p, q)

\* C12: in the manifest build_config returns, no directory entry's path is a
\* sub-path of another directory entry's path, also when entries stand for
\* the parent of a path that has an extension.
C12_DirectoriesIrredundant ==
    pc = "built" =>
        \A j, k \in 1..Len(built.directories) :
            j # k => ~is_subpath(built.directories[j].path, built.directories[k].path)

\* the buckets of collect_paths that hold the normalized value
BucketsHolding(value) ==
    { b \in {"registry_keys", "tasks", "file_paths"} : value \in collected[b] }

\* C13: every non-empty value of a path-bearing attribute is, once
\* normalized, in exactly one of the sets registry keys, tasks and file paths.
C13_ClassificationTotal ==
    (pc = "classified" /\ raw # <<>>) => Cardinality(BucketsHolding(norm)) = 1

(***************************************************************************)
(* Properties of the packager, continued.                                  *)
(***************************************************************************)
\* the manifest.json of the package
ManifestFile == OutputDir \o <<W_manifest_json>>

\* a run that wrote into the output directory has ended without an error
RealRunDone == pc = "done" /\ ~dry_run

MaxTotal == 3

\* the entries a category of these manifests is made of
EntryChoices(cat) ==
    CASE cat = "directories" -> DirectoryEntries
      [] cat = "files" -> FilePaths
      [] cat = "registry_keys" -> RegistryKeys \union { <<"H","K","L","M","\\","F">> }
      [] cat = "services" -> ServiceNames \union { <<"S","v","c">> }
      [] cat = "scheduled_tasks" -> TaskNames \union { <<"\\","U">> }
      [] cat = "shortcuts" -> ShortcutPaths

\* the manifest without entries
EmptyManifest ==
    [app_name |-> <<"F","o","o">>, directories |-> <<>>, files |-> <<>>,
     registry_keys |-> <<>>, services |-> <<>>, scheduled_tasks |-> <<>>,
     shortcuts |-> <<>>]

RECURSIVE ManifestsOfTotal(_)
\* the manifests of at most n entries
ManifestsOfTotal(n) ==
    IF n = 0 THEN {EmptyManifest}
    ELSE LET fewer == ManifestsOfTotal(n - 1)
             categories == {"directories", "files", "registry_keys", "services",
                            "scheduled_tasks", "shortcuts"}
         IN  fewer \union
             UNION { { [m EXCEPT ![cat] = Append(@, entry)] :
                         m \in fewer, entry \in EntryChoices(cat) } : cat \in categories }

\* main is called for a manifest of these, the output path not existing
OrderInit ==
    /\ config \in ManifestsOfTotal(MaxTotal)
    /\ dry_run \in BOOLEAN
    /\ fs_dirs = {}
    /\ fs_content = EmptyMap
    /\ start_dirs = {}
    /\ start_content = EmptyMap
    /\ pc = "start"
    /\ idx = 1
    /\ log = <<>>
    /\ executed = <<>>
    /\ result = NoResult
    /\ error = NoError
    /\ preview = <<>>
    /\ TraceIdle
    /\ ConvIdle
    /\ HostIdle
    /\ StubIdle

OrderSpec == OrderInit /\ [][PackNext]_vars

\* the line each step of main prints when it starts
DirectoryStep(entry) ==
    Line("copy dir", <<PathStr(expand_path(entry.path)), PathStr(DirectoryDestination(entry))>>)

FileStep(path) ==
    Line("copy file", <<PathStr(expand_path(path)),
                        PathStr(prog_files_dir \o <<PathName(expand_path(path))>>)>>)

RegistryStep(key) ==
    Line("cmd", RegCmd(key, registry_dir \o <<sanitize_name(key) \o <<".","r","e","g">>>>))

ServiceStep(service_name) == Line("cmd", ScQcCmd(service_name))

TaskStep(task_name) == Line("cmd", SchtasksCmd(task_name))

ShortcutStep(path) ==
    Line("copy file", <<PathStr(expand_path(path)),
                        PathStr(shortcuts_dir \o <<PathName(expand_path(path))>>)>>)

ManifestStep == Line("manifest", <<PathStr(ManifestFile)>>)

RestoreStep == Line("restore stub", <<PathStr(OutputDir \o <<W_Restore_cmd>>)>>)

\* the steps of a run in the order of main, lines 297-325
PlanLines(cfg) ==
    [i \in 1..Len(cfg.directories) |-> DirectoryStep(cfg.directories[i])]
    \o [i \in 1..Len(cfg.files) |-> FileStep(cfg.files[i])]
    \o [i \in 1..Len(cfg.registry_keys) |-> RegistryStep(cfg.registry_keys[i])]
    \o [i \in 1..Len(cfg.services) |-> ServiceStep(cfg.services[i])]
    \o [i \in 1..Len(cfg.scheduled_tasks) |-> TaskStep(cfg.scheduled_tasks[i])]
    \o [i \in 1..Len(cfg.shortcuts) |-> ShortcutStep(cfg.shortcuts[i])]
    \o <<ManifestStep, RestoreStep>>

\* the steps that come before the first entry of a category
StepsBefore(cfg, cat) ==
    CASE cat = "directories" -> 0
      [] cat = "files" -> Len(cfg.directories)
      [] cat = "registry_keys" -> Len(cfg.directories) + Len(cfg.files)
      [] cat = "services" -> Len(cfg.directories) + Len(cfg.files) + Len(cfg.registry_keys)
      [] cat = "scheduled_tasks" ->
           Len(cfg.directories) + Len(cfg.files) + Len(cfg.registry_keys) + Len(cfg.services)
      [] cat = "shortcuts" -> Len(PlanLines(cfg)) - 2 - Len(cfg.shortcuts)

\* the lines of the log that start a step
StepLines(lines) == SelectSeq(lines, LAMBDA line : line.tag \notin {"info", "done"})

IsPrefix(short, long) == Len(short) <= Len(long) /\ SubSeq(long, 1, Len(short)) = short

\* C17: the steps of a run start in the order directories, files, registry
\* keys, services, scheduled tasks, shortcuts, manifest, restore template,
\* the entries of a category in the order of the manifest; when a step is
\* about to start, every step before it in that order has been run and no
\* other, and a run that ends without error has run them all.
C17_CaptureOrder ==
    /\ IsPrefix(StepLines(log), PlanLines(config))
    /\ pc \in {"directories", "files", "registry_keys", "services", "scheduled_tasks",
               "shortcuts"} =>
           Len(StepLines(log)) = StepsBefore(config, pc) + idx - 1
    /\ pc = "service_description" =>
           Len(StepLines(log)) = StepsBefore(config, "services") + idx
    /\ pc = "manifest" => Len(StepLines(log)) = Len(PlanLines(config)) - 2
    /\ pc = "restore" => Len(StepLines(log)) = Len(PlanLines(config)) - 1
    /\ pc \in {"finish", "done"} => StepLines(log) = PlanLines(config)

C17_Witness ==
    /\ pc = "done"
    /\ StepLines(log) = PlanLines(config)
    /\ \E cat \in {"directories", "files", "shortcuts"} :
         Len(config[cat]) = 2 /\ config[cat][1] # config[cat][2]
    /\ \E cat \in {"registry_keys", "services", "scheduled_tasks"} : Len(config[cat]) > 0

(***************************************************************************)
(* Properties of the conversion of a trace, continued.                     *)
(***************************************************************************)
\* the path is a program-install root or a separator-aligned sub-path of one
UnderProgramRoot(path) ==
    \E k \in 1..Len(PROGRAM_ROOTS) : is_subpath(path, WinStr(PROGRAM_ROOTS[k]))

\* C18: a directory entry of the manifest has type program exactly when its
\* path is a program-install root or a separator-aligned sub-path of one,
\* and type data otherwise; a sibling of a program root whose name only
\* starts like the root's is not of type program.
C18_RootClassification ==
    pc = "built" =>
        \A k \in 1..Len(built.directories) :
            LET entry == built.directories[k]
            IN  /\ entry.type \in {"program", "data"}
                /\ entry.type = "program" <=> UnderProgramRoot(entry.path)

\* the paths of the directory entries of the manifest
DirectoryPaths == { built.directories[k].path : k \in 1..Len(built.directories) }

\* the path has an extension and is not written with a trailing separator
HasExtension(raw_path) ==
    WinSuffix(WinPath(raw_path)) # <<>> /\ raw_path[Len(raw_path)] # "\\"

\* C19: of the paths reduce_paths kept, one under a known root that has an
\* extension and no trailing separator gives a directory entry for its
\* parent and is itself neither a directory entry nor a file of the
\* manifest; one under a known root without an extension, or with a
\* trailing separator, is a directory entry; one under no known root is a
\* file of the manifest and no directory entry.
C19_DirectoryFileSplit ==
    pc = "built" =>
        \A p \in Range(reduced) :
            LET path_obj == WinPath(p)
            IN  IF is_within_known_root(path_obj)
                THEN IF HasExtension(p)
                     THEN /\ WinStr(WinParent(path_obj)) \in DirectoryPaths
                          /\ WinStr(path_obj) \notin DirectoryPaths
                          /\ p \notin Range(built.files)
                     ELSE WinStr(path_obj) \in DirectoryPaths
                ELSE /\ p \in Range(built.files)
                     /\ WinStr(path_obj) \notin DirectoryPaths

\* no two entries of the list are equal when case is ignored
DistinctIgnoringCase(list) ==
    \A j, k \in 1..Len(list) : j # k => Lower(list[j]) # Lower(list[k])

\* C20: in the manifest build_config returns, none of the lists
\* registry_keys, services and scheduled_tasks holds two entries that are
\* equal when case is ignored.
C20_CaseInsensitiveDedup ==
    pc = "built" =>
        /\ DistinctIgnoringCase(built.registry_keys)
        /\ DistinctIgnoringCase(built.services)
        /\ DistinctIgnoringCase(built.scheduled_tasks)

(***************************************************************************)
(* gui_app/backend.py: Backend.  The slots run on the GUI thread; each     *)
(* call starts a worker thread, and the threads run interleaved.  A step   *)
(* of a worker is a stretch of its code between two points where what      *)
(* another packaging run does to the output directory can make a           *)
(* difference.  logMessage carries text for the log view and is not kept.  *)
(***************************************************************************)
\* the most operations started in a session of the application
MaxOps == 2

\* a packaging run is inside portable_packager.main
InMain(worker) == worker.kind = "package" /\ worker.pc \in {"main_check", "main_capture"}

\* the raw paths the user interface passes: a given one, or none
HostInputs == { <<>>, <<"i","n">> }
HostOutputs == { PathStr(OutputDir), <<"a","l","t">> }
HostConfigs == { <<>>, <<"c",".","j">> }
HostManifest == <<"c",".","j">>

\* everything but the state of the backend
notHostVars == <<packVars, traceVars, convVars, stubVars>>

\* signal.emit() by the worker i, which then goes on at next_pc
EmitFrom(i, name, next_pc) ==
    /\ workers' = [workers EXCEPT ![i].emitted = Append(@, name), ![i].pc = next_pc]
    /\ signals' = [signals EXCEPT ![name] = @ + 1]

\* an except clause that leaves the worker without emitting operationFailed
HandleErrorWithoutSignal(i) ==
    /\ workers' = [workers EXCEPT ![i].pc = "ended"]
    /\ signals' = signals

\* the except clause of a worker and _handle_error; the thread ends
handle_error(i) == EmitFrom(i, "operationFailed", "ended")

\* _start_thread: operationStarted is emitted and a thread is started
start_thread(kind, input, output, dry, first_pc) ==
    /\ signals' = [signals EXCEPT !.operationStarted = @ + 1]
    /\ workers' = Append(workers, [kind |-> kind, input |-> input, output |-> output,
                                   dry_run |-> dry, pc |-> first_pc, emitted |-> <<>>])
    /\ UNCHANGED <<occupied, notHostVars>>

\* the slot convertXml
ConvertXml ==
    /\ Len(workers) < MaxOps
    /\ \E xml_path \in HostInputs, output_path \in HostConfigs :
         start_thread("convert", xml_path, output_path, FALSE, "convert")

\* the slot generatePackage
GeneratePackage ==
    /\ Len(workers) < MaxOps
    /\ \E output_dir \in HostOutputs \union {<<>>}, dry \in BOOLEAN :
         start_thread("package", HostManifest, output_dir, dry, "resolve")

\* _convert_worker: _resolve_path raises for a missing path, build_config
\* or the writing of the file may raise
convert_worker(i) ==
    /\ workers[i].pc = "convert"
    /\ IF workers[i].input = <<>> \/ workers[i].output = <<>>
       THEN handle_error(i)
       ELSE \E raised \in BOOLEAN :
              IF raised THEN handle_error(i)
              ELSE EmitFrom(i, "operationFinished", "ended")
    /\ UNCHANGED <<occupied, notHostVars>>

\* _package_worker, lines 115-117: the paths are resolved, the output
\* directory is created
package_resolve(i) ==
    /\ workers[i].pc = "resolve"
    /\ IF workers[i].input = <<>> \/ workers[i].output = <<>>
       THEN handle_error(i)
       ELSE /\ workers' = [workers EXCEPT ![i].pc = "main_check"]
            /\ signals' = signals
    /\ UNCHANGED <<occupied, notHostVars>>

\* portable_packager.main, lines 261-273: the manifest is loaded and the
\* output directory is checked for content
package_check(i) ==
    /\ workers[i].pc = "main_check"
    /\ \E loaded \in BOOLEAN :
         IF ~loaded \/ (~workers[i].dry_run /\ workers[i].output \in occupied)
         THEN handle_error(i)
         ELSE /\ workers' = [workers EXCEPT ![i].pc = "main_capture"]
              /\ signals' = signals
    /\ UNCHANGED <<occupied, notHostVars>>

\* portable_packager.main, lines 274-326, and _package_worker, lines
\* 119-125: the package is written, or folders only in a dry run, and the
\* outcome is signalled
package_capture(i) ==
    /\ workers[i].pc = "main_capture"
    /\ \E raised \in BOOLEAN, wrote \in BOOLEAN :
         /\ (~raised /\ ~workers[i].dry_run) => wrote
         /\ occupied' = IF wrote THEN occupied \union {workers[i].output} ELSE occupied
         /\ IF raised THEN handle_error(i)
            ELSE EmitFrom(i, "operationFinished", "ended")
    /\ UNCHANGED notHostVars

ConvertWorker == \E i \in DOMAIN workers : convert_worker(i)
PackageResolve == \E i \in DOMAIN workers : package_resolve(i)
PackageCheck == \E i \in DOMAIN workers : package_check(i)
PackageCapture == \E i \in DOMAIN workers : package_capture(i)

\* a step of the thread of the i-th operation
WorkerStep(i) ==
    /\ i \in DOMAIN workers
    /\ convert_worker(i) \/ package_resolve(i) \/ package_check(i) \/ package_capture(i)

BackendInit ==
    /\ workers = <<>>
    /\ signals = NoSignals
    /\ occupied \in { {}, {PathStr(OutputDir)} }
    /\ pc = "host"
    /\ PackIdle
    /\ TraceIdle
    /\ ConvIdle
    /\ StubIdle

BackendNext ==
    \/ ConvertXml
    \/ GeneratePackage
    \/ ConvertWorker
    \/ PackageResolve
    \/ PackageCheck
    \/ PackageCapture

BackendSpec == BackendInit /\ [][BackendNext]_vars

\* the threads run as long as the application does, and the calls they make
\* return
FairBackendSpec == BackendSpec /\ \A i \in 1..MaxOps : WF_vars(WorkerStep(i))

(***************************************************************************)
(* Properties of the backend.                                              *)
(***************************************************************************)
\* the terminal signals the i-th operation has emitted
TerminalSignals(i) ==
    SelectSeq(workers[i].emitted,
              LAMBDA name : name \in {"operationFinished", "operationFailed"})

\* C15: at no time are two packaging runs that were started by
\* generatePackage for the same output directory inside main together.
C15_RunsSerialized ==
    \A i, j \in DOMAIN workers :
        (i # j /\ workers[i].output = workers[j].output) =>
            ~(InMain(workers[i]) /\ InMain(workers[j]))

\* C16: an operation emits at most one terminal signal, operationFinished
\* or operationFailed, and every operation that was started emits one in
\* the end; no terminal signal is emitted without a started operation.
C16_OneTerminalSignal ==
    /\ [](\A i \in DOMAIN workers : Len(TerminalSignals(i)) <= 1)
    /\ [](signals.operationFinished + signals.operationFailed <= signals.operationStarted)
    /\ [](signals.operationStarted = Len(workers))
    /\ \A i \in 1..MaxOps :
         (i \in DOMAIN workers) ~> (i \in DOMAIN workers /\ Len(TerminalSignals(i)) = 1)

C16_Witness ==
    /\ Len(workers) = MaxOps
    /\ \A i \in DOMAIN workers : workers[i].pc = "ended"
    /\ \E i, j \in DOMAIN workers :
         /\ workers[i].kind = "convert" /\ TerminalSignals(i) = <<"operationFinished">>
         /\ workers[j].kind = "package" /\ TerminalSignals(j) = <<"operationFailed">>

(***************************************************************************)
(* Properties of the packager: the layout of the package.                  *)
(***************************************************************************)
\* the output root and the six category folders
Layout ==
    {OutputDir, prog_files_dir, data_dir, registry_dir, services_dir, tasks_dir,
     shortcuts_dir}

\* main has passed the emptiness check and the validation, and has not failed
Capturing ==
    pc \in {"directories", "files", "registry_keys", "services", "service_description",
            "scheduled_tasks", "shortcuts", "manifest", "restore", "finish", "done"}

\* C21: in a run that is not a dry run, the output root and the folders
\* ProgramFiles, ProgramData, Registry, Services, Tasks and Shortcuts exist
\* from before the first capture step to the end of a successful run,
\* whatever the manifest holds.
C21_LayoutPrepared ==
    (~dry_run /\ Capturing) => Layout \subseteq fs_dirs

(***************************************************************************)
(* portable_packager.py: the robocopy line write_restore_stub computes for *)
(* one directory entry.                                                    *)
(***************************************************************************)
\* the most segments the target of such an entry has
MaxSegs == 3

\* the segments the targets are made of
TargetSegments ==
    { <<"A","p","p","D","a","t","a">>, <<"L","o","c","a","l">>,
      <<"L","o","c","a","l","A","p","p","D","a","t","a">>, <<"a","p","p","d","a","t","a">>,
      <<"F","o","o">> }

\* the directory entries of a manifest: a target of some segments or none
StubEntries ==
    [ path : {DirY}, target : SeqsUpTo(TargetSegments, MaxSegs), type : {"program", "data"} ]

\* write_restore_stub, lines 216-217
RestoreLine ==
    /\ pc = "entry"
    /\ dest_base' = determine_destination_base(stub_entry)
    /\ dest_suffix' = restore_target_suffix(stub_entry)
    /\ pc' = "line"
    /\ UNCHANGED <<stub_entry, packVarsButPc, traceVars, convVars, hostVars>>

StubInit ==
    /\ stub_entry \in StubEntries
    /\ dest_base = ""
    /\ dest_suffix = <<>>
    /\ pc = "entry"
    /\ PackIdle
    /\ TraceIdle
    /\ ConvIdle
    /\ HostIdle

StubNext == RestoreLine

StubSpec == StubInit /\ [][StubNext]_vars

\* the segments of the target of the entry: entry.get("target"), else the
\* name of its path
TargetSegs == IF stub_entry.target = NoTarget THEN <<PathName(stub_entry.path)>> ELSE stub_entry.target

\* the segments from the k-th on, joined; "." when none is left
SegsFrom(k) == JoinOrDot(SubSeq(TargetSegs, k, Len(TargetSegs)))

\* the target begins with the segments AppData\Local, in any case
BeginsAppDataLocal ==
    /\ Len(TargetSegs) >= 2
    /\ Lower(TargetSegs[1]) = S_appdata
    /\ Lower(TargetSegs[2]) = <<"l","o","c","a","l">>

\* C22: the destination suffix of a directory entry is its target without
\* the leading segments that gave the destination base, the other segments
\* kept: a target that begins with AppData\Local has the base %LocalAppData%
\* and loses both segments, whether or not more segments follow; one that
\* begins with LocalAppData loses that segment; one of base %AppData% that
\* begins with AppData loses that segment; no other segment is lost.
C22_RestoreSuffix ==
    pc = "line" =>
        /\ BeginsAppDataLocal => (dest_base = "%LocalAppData%" /\ dest_suffix = SegsFrom(3))
        /\ Lower(TargetSegs[1]) = S_localappdata =>
               (dest_base = "%LocalAppData%" /\ dest_suffix = SegsFrom(2))
        /\ (dest_base = "%AppData%" /\ Lower(TargetSegs[1]) = S_appdata) =>
               dest_suffix = SegsFrom(2)
        /\ \E k \in 1..(Len(TargetSegs) + 1) : dest_suffix = SegsFrom(k)

(***************************************************************************)
(* Packaging runs of manifests whose entries have names that differ in one *)
(* character only.                                                         *)
(***************************************************************************)
\* registry keys, service names and scheduled tasks of such manifests
KindredKeys == { <<"H","K","C","U","\\","a"," ","b">>, <<"H","K","C","U","\\","a","_","b">> }
KindredServices == ServiceNames \union { <<"m","y","_","s">> }
KindredTasks == { <<"\\","A","\\","T">>, <<"\\","A","_","T">> }

\* the entries a category of these manifests is made of
KindredChoices(cat) ==
    CASE cat = "directories" -> DirectoryEntries
      [] cat = "files" -> FilePaths
      [] cat = "registry_keys" -> KindredKeys
      [] cat = "services" -> KindredServices
      [] cat = "scheduled_tasks" -> KindredTasks
      [] cat = "shortcuts" -> ShortcutPaths

RECURSIVE KindredManifests(_)
\* the manifests of at most n of these entries
KindredManifests(n) ==
    IF n = 0 THEN {EmptyManifest}
    ELSE LET fewer == KindredManifests(n - 1)
         IN  fewer \union
             UNION { { [m EXCEPT ![Categories[k]] = Append(@, entry)] :
                         m \in fewer, entry \in KindredChoices(Categories[k]) } :
                     k \in 1..Len(Categories) }

\* main is called for a manifest of these, the output path not existing
ExportInit ==
    /\ config \in KindredManifests(MaxTotal)
    /\ dry_run \in BOOLEAN
    /\ fs_dirs = {}
    /\ fs_content = EmptyMap
    /\ start_dirs = {}
    /\ start_content = EmptyMap
    /\ pc = "start"
    /\ idx = 1
    /\ log = <<>>
    /\ executed = <<>>
    /\ result = NoResult
    /\ error = NoError
    /\ preview = <<>>
    /\ TraceIdle
    /\ ConvIdle
    /\ HostIdle
    /\ StubIdle

ExportSpec == ExportInit /\ [][PackNext]_vars

\* the files of the output that are directly in this folder
FilesIn(folder) == { p \in DOMAIN fs_content : PathParent(p) = folder }

\* the number of different entries of a list of the manifest
Distinct(list) == Cardinality({ list[i] : i \in 1..Len(list) })

\* C23: after a successful run that is not a dry run, the Registry folder
\* holds as many export files as the manifest has different registry keys,
\* the Services folder as many capture files as it has different services,
\* and the ScheduledTasks folder as many as it has different tasks: no
\* capture has overwritten the file of another entry.
C23_OwnExportFile ==
    RealRunDone =>
        /\ Cardinality(FilesIn(registry_dir)) = Distinct(config.registry_keys)
        /\ Cardinality(FilesIn(services_dir)) = Distinct(config.services)
        /\ Cardinality(FilesIn(tasks_dir)) = Distinct(config.scheduled_tasks)

(***************************************************************************)
(* The manifest that the converter writes for a trace is given to the      *)
(* packager.                                                               *)
(***************************************************************************)
\* the elements of the traces that are converted and then packaged: the
\* paths exist on the machine the packager runs on
PackagedElements ==
    { [tag |-> <<"F","i","l","e">>, attrib |-> Attr("Path", v)] :
        v \in { <<"C",":","\\","P","\\","x","\\","y">>,
                <<"C",":","\\","P","\\","z","\\","y">>,
                <<"C",":","\\","a",".","t">> } }
    \union { [tag |-> <<"K","e","y">>, attrib |-> Attr("Location", <<"H","K","C","U","\\","F">>)] }
    \union { [tag |-> <<"I","t","e","m">>, attrib |-> Attr("target", <<"\\","T">>)] }
    \union { [tag |-> <<"S","e","r","v","i","c","e">>, attrib |-> Attr("Name", <<"S","v","c">>)] }

RECURSIVE PackagedDocsUpTo(_)
\* the traces of at most n of these elements
PackagedDocsUpTo(n) ==
    IF n = 0 THEN { {} }
    ELSE PackagedDocsUpTo(n - 1) \union
         { d \union {e} : d \in PackagedDocsUpTo(n - 1), e \in PackagedElements }

\* Path(value) of the packager for a string of the manifest
PackPath(value) == SelectSeq(Split(value, "\\"), LAMBDA piece : piece # <<>>)

\* json.dump of the converter's main, then load_config of the packager:
\* paths and targets are strings, which main gives to Path
load_config(written) ==
    [app_name |-> written.app_name,
     directories |-> [i \in 1..Len(written.directories) |->
                        [path |-> PackPath(written.directories[i].path),
                         target |-> PackPath(written.directories[i].target),
                         type |-> written.directories[i].type]],
     files |-> [i \in 1..Len(written.files) |-> PackPath(written.files[i])],
     registry_keys |-> written.registry_keys,
     services |-> written.services,
     scheduled_tasks |-> written.scheduled_tasks,
     shortcuts |-> [i \in 1..Len(written.shortcuts) |-> PackPath(written.shortcuts[i])]]

\* the packager is started on the manifest the converter wrote
LoadConfig ==
    /\ pc = "built"
    /\ config' = load_config(built)
    /\ dry_run' \in BOOLEAN
    /\ pc' = "start"
    /\ UNCHANGED <<idx, fs_dirs, fs_content, start_dirs, start_content, log, executed,
                   result, error, preview, traceVars, convVars, hostVars, stubVars>>

PipelineInit ==
    /\ doc \in PackagedDocsUpTo(MaxElems)
    /\ collected = EmptyCollected
    /\ reduced = <<>>
    /\ picked = EmptyPicked
    /\ built = NoConfig
    /\ pc = "parsed"
    /\ PackIdle
    /\ TraceIdle
    /\ HostIdle
    /\ StubIdle

\* build_config leaves shortcuts empty, so no shortcut is copied
PipelineNext ==
    \/ CollectPaths
    \/ ReducePaths
    \/ PickDirectoriesAndFiles
    \/ BuildConfig
    \/ LoadConfig
    \/ Prepare
    \/ ValidateDirectories
    \/ ValidateFiles
    \/ ValidateShortcuts
    \/ CopyDirectory
    \/ CopyFile
    \/ ExportRegistry
    \/ CaptureServiceQuery
    \/ CaptureServiceWrite
    \/ CaptureScheduledTask
    \/ CreateManifest
    \/ WriteRestoreStub
    \/ Finish
    \/ RunForReal

PipelineSpec == PipelineInit /\ [][PipelineNext]_vars

\* C24: after a successful run that is not a dry run on a manifest the
\* converter produced, directory entries of different source paths have
\* different destination directories, and the destination of every entry
\* holds the mirror of that entry's source: no later mirror has replaced it.
C24_SeparateCapture ==
    (RealRunDone /\ built # NoConfig) =>
        \A i, j \in 1..Len(config.directories) :
            LET first == config.directories[i]
                second == config.directories[j]
            IN  /\ first.path # second.path =>
                       DirectoryDestination(first) # DirectoryDestination(second)
                /\ DirectoryDestination(first) \in DOMAIN fs_content
                /\ fs_content[DirectoryDestination(first)].data = expand_path(first.path)

====
